---------------------------- MODULE Spec2Model ----------------------------
(***************************************************************************)
(* Model of app.py: the image -> caption -> story -> audio pipeline.       *)
(*                                                                         *)
(* Texts are finite sequences of tokens.  The token "Error" stands for the *)
(* five-letter word that main() searches for; no other token contains any  *)
(* part of it, so `"Error" in text` is membership of that token.           *)
(***************************************************************************)
EXTENDS Integers, Sequences, FiniteSets, TLC

VARIABLES
    pc,           \* position of main() and of the stage it is executing
    image_url,    \* st.text_input value (app.py:92)
    remote,       \* behaviours the remote endpoints may show in this run
    caption,      \* value returned by img2text_url (app.py:100)
    capStatus,    \* return path taken by img2text_url: none/ok/failed/raised
    model,        \* index into models of the candidate being tried (app.py:51)
    attempt,      \* loop variable of range(retry_attempts) (app.py:53)
    story,        \* value returned by generate_story (app.py:107)
    storyStatus,  \* return path taken by generate_story: none/ok/failed
    modelUsed,    \* index of the candidate whose attempt returned, 0 if none
    audio_file,   \* value returned by text2speech (app.py:114)
    ttsStatus,    \* return path taken by text2speech: none/ok/failed
    file,         \* content of audio.flac on disk (app.py:77-79)
    calls,        \* remote inference calls made so far, in order
    sleeps,       \* time.sleep durations so far, in order
    outcome,      \* what main() reported to the page
    valid,        \* result of is_valid_image_url: unchecked/valid/invalid
    invoked,      \* stages main() has called so far, in order
    capResp,      \* the response the captioning call received
    presented,    \* artifacts written to the page by st.write / st.audio
    rawStory,     \* raw text returned by the predict call that ended the stage
    ttsResp,      \* the response the narration call received
    peer          \* a second run of main(), from its narration stage on

vars == <<pc, image_url, remote, caption, capStatus, model, attempt, story,
          storyStatus, modelUsed, audio_file, ttsStatus, file, calls, sleeps,
          outcome, valid, invoked, capResp, presented, rawStory, ttsResp,
          peer>>

-----------------------------------------------------------------------------
(* Bounds *)

MaxTextLen == 2

-----------------------------------------------------------------------------
(* Texts *)

Chars == {"a", " ", "\n", "Error"}

Whitespace == {" ", "\n"}

TextsUpTo(n) == UNION {[1..k -> Chars] : k \in 0..n}

Texts == TextsUpTo(MaxTextLen)

Max(S) == CHOOSE i \in S : \A j \in S : j <= i

Min(S) == CHOOSE i \in S : \A j \in S : i <= j

\* str.split('\n')[-1]: what follows the last newline (app.py:61)
SplitLast(s) ==
    LET nl == {i \in DOMAIN s : s[i] = "\n"}
        from == IF nl = {} THEN 1 ELSE Max(nl) + 1
    IN  SubSeq(s, from, Len(s))

\* str.strip(): drop leading and trailing whitespace (app.py:61)
Strip(s) ==
    LET ink == {i \in DOMAIN s : s[i] \notin Whitespace}
    IN  IF ink = {} THEN <<>> ELSE SubSeq(s, Min(ink), Max(ink))

\* story.split('\n')[-1].strip() (app.py:61)
PostProcess(raw) == Strip(SplitLast(raw))

\* variant: the substring test never finds the marker
HasErrorNever(text) == FALSE

\* `"Error" in text` (app.py:101, 108, 115)
HasError(text) == \E i \in DOMAIN text : text[i] = "Error"

\* f"Error: {e}" (app.py:33, 82)
ErrorText(e) == <<"Error", ":", " ", e>>

\* variant: falling out of the loops returns the empty string
ExhaustedTextEmpty == <<>>

\* the literal returned when every candidate is exhausted (app.py:66)
ExhaustedText == <<"Error", ":", " ", "Unable to generate story after multiple attempts.">>

\* audio_path (app.py:77)
audio_path == <<"audio.flac">>

-----------------------------------------------------------------------------
(* Configuration of generate_story *)

models == <<"HuggingFaceH4/zephyr-7b-beta",
            "deepseek-ai/DeepSeek-R1",
            "deepseek-ai/DeepSeek-R1-Distill-Qwen-1.5B">>

\* variant: one retry too many
retry_attemptsFour == 3 + 1

retry_attempts == 3

Slots == (1..Len(models)) \X (0..(retry_attempts - 1))

-----------------------------------------------------------------------------
(* What the remote endpoints can answer *)

\* requests.exceptions.RequestException raised by post / raise_for_status
ClientErrors == {"Transport", "RemoteRejected"}

ImageRefs == {<<>>, <<"a">>}

AudioBytes == {"flac1", "flac2"}

\* response.json() of the captioning endpoint on a success status
CaptionBodies ==
    {<<>>, <<[label |-> <<"a">>]>>} \cup {<<[generated_text |-> t]>> : t \in Texts}

CaptionResponses ==
    {[status |-> e, body |-> <<>>] : e \in ClientErrors}
        \cup {[status |-> "ok", body |-> b] : b \in CaptionBodies}

\* a three-line raw text that ends in a newline, its last written line padded
\* with blanks: the shape of "line1\nline2\n  final line  \n"
ExampleRaw == <<"a", "\n", "a", "\n", " ", " ", "a", " ", "a", " ", " ", "\n">>

\* story_llm.predict either raises or returns the raw generated text
StoryResponses ==
    {[status |-> e, text |-> <<>>] : e \in ClientErrors}
        \cup {[status |-> "ok", text |-> t] : t \in Texts \cup {ExampleRaw}}

AudioResponses ==
    {[status |-> e, content |-> "none"] : e \in ClientErrors}
        \cup {[status |-> "ok", content |-> b] : b \in AudioBytes}

NoOutcome == [kind |-> "none", stage |-> "none"]

NoArtifacts == [caption |-> <<>>, story |-> <<>>, audio |-> "none"]

NoAudioResponse == [status |-> "none", content |-> "none"]

\* audio.flac before the run: absent, or left behind by an earlier run
InitialFiles == {"none", "flac0"}

NoResponse == [status |-> "none", body |-> <<>>]

\* one remote inference call: who made it and whether it returned normally
Call(stage, m, a, ok) == [stage |-> stage, model |-> m, attempt |-> a, ok |-> ok]

-----------------------------------------------------------------------------
(* Reading the history *)

StoryCalls == SelectSeq(calls, LAMBDA c : c.stage = "story")

CallsTo(stage) == Cardinality({i \in DOMAIN calls : calls[i].stage = stage})

CallsToModel(m) ==
    Cardinality({i \in DOMAIN calls : calls[i].stage = "story" /\ calls[i].model = m})

Invocations(stage) == Cardinality({i \in DOMAIN invoked : invoked[i] = stage})

Failure(stage) == [kind |-> "failure", stage |-> stage]

-----------------------------------------------------------------------------
(* Initial states *)

InitRun ==
    /\ pc = "main"
    /\ image_url \in ImageRefs
    /\ caption = <<>>
    /\ capStatus = "none"
    /\ model = 1
    /\ attempt = 0
    /\ story = <<>>
    /\ storyStatus = "none"
    /\ modelUsed = 0
    /\ audio_file = <<>>
    /\ ttsStatus = "none"
    /\ file \in InitialFiles
    /\ calls = <<>>
    /\ sleeps = <<>>
    /\ outcome = NoOutcome
    /\ valid = "unchecked"
    /\ invoked = <<>>
    /\ capResp = NoResponse
    /\ presented = NoArtifacts
    /\ rawStory = <<>>
    /\ ttsResp = NoAudioResponse
    /\ peer = [pc |-> "text2speech", audio_file |-> <<>>,
               resp |-> NoAudioResponse, presented |-> "none"]

\* every endpoint may answer anything on every call
Init ==
    /\ InitRun
    /\ remote = [caption |-> CaptionResponses,
                 story |-> [s \in Slots |-> StoryResponses],
                 audio |-> AudioResponses]

\* a run against endpoints whose answers are fixed in advance: each story slot
\* (candidate, attempt) either raises, returns text whose last line is blank,
\* or returns a one-line story
SchedStoryResponses ==
    {[status |-> "Transport", text |-> <<>>],
     [status |-> "ok", text |-> <<"a", "\n">>],
     [status |-> "ok", text |-> <<"a">>]}

SchedCaptionResponses ==
    {[status |-> "RemoteRejected", body |-> <<>>],
     [status |-> "ok", body |-> <<[generated_text |-> <<"a">>]>>]}

SchedAudioResponses ==
    {[status |-> "Transport", content |-> "none"],
     [status |-> "ok", content |-> "flac1"]}

InitSched ==
    /\ InitRun
    /\ remote \in [caption : {SchedCaptionResponses},
                   story : [Slots -> {{r} : r \in SchedStoryResponses}],
                   audio : {SchedAudioResponses}]

-----------------------------------------------------------------------------
(* main() up to the captioning stage *)

\* app.py:92-94: `if image_url:`
MainInput ==
    /\ pc = "main"
    /\ IF image_url # <<>>
       THEN /\ pc' = "validate"
            /\ UNCHANGED outcome
       ELSE /\ pc' = "done"
            /\ outcome' = [kind |-> "idle", stage |-> "none"]
    /\ UNCHANGED <<image_url, remote, caption, capStatus, model, attempt,
                   story, storyStatus, modelUsed, audio_file, ttsStatus,
                   file, calls, sleeps, valid, invoked, capResp, presented,
                   rawStory, ttsResp, peer>>

\* app.py:14-21, 95-96, 130-131
IsValidImageUrl ==
    /\ pc = "validate"
    /\ \E ok \in BOOLEAN :
          IF ok
          THEN /\ valid' = "valid"
               /\ pc' = "img2text"
               /\ UNCHANGED outcome
          ELSE /\ valid' = "invalid"
               /\ pc' = "done"
               /\ outcome' = [kind |-> "invalid_url", stage |-> "none"]
    /\ UNCHANGED <<image_url, remote, caption, capStatus, model, attempt,
                   story, storyStatus, modelUsed, audio_file, ttsStatus,
                   file, calls, sleeps, invoked, capResp, presented,
                   rawStory, ttsResp, peer>>

\* response.json()[0]["generated_text"] evaluates without KeyError/IndexError
HasGeneratedText(body) ==
    /\ Len(body) >= 1
    /\ "generated_text" \in DOMAIN body[1]

\* variant: a client error is retried once inside the stage
Img2TextUrlRetry ==
    /\ pc = "img2text"
    /\ invoked' = IF CallsTo("caption") = 0 THEN Append(invoked, "caption") ELSE invoked
    /\ \E r \in remote.caption :
          /\ calls' = Append(calls, Call("caption", 0, 0, r.status = "ok"))
          /\ capResp' = r
          /\ IF r.status # "ok" /\ CallsTo("caption") = 0
             THEN /\ pc' = "img2text"
                  /\ UNCHANGED <<caption, capStatus, outcome>>
             ELSE IF r.status # "ok"
             THEN /\ caption' = ErrorText(r.status)
                  /\ capStatus' = "failed"
                  /\ pc' = "check_caption"
                  /\ UNCHANGED outcome
             ELSE IF HasGeneratedText(r.body)
             THEN /\ caption' = r.body[1].generated_text
                  /\ capStatus' = "ok"
                  /\ pc' = "check_caption"
                  /\ UNCHANGED outcome
             ELSE /\ capStatus' = "raised"
                  /\ pc' = "done"
                  /\ outcome' = [kind |-> "exception", stage |-> "none"]
                  /\ UNCHANGED caption
    /\ UNCHANGED <<image_url, remote, model, attempt, story, storyStatus,
                   modelUsed, audio_file, ttsStatus, file, sleeps, valid,
                   presented,
                   rawStory, ttsResp, peer>>

\* app.py:100 calling app.py:24-33
Img2TextUrl ==
    /\ pc = "img2text"
    /\ invoked' = Append(invoked, "caption")
    /\ \E r \in remote.caption :
          /\ calls' = Append(calls, Call("caption", 0, 0, r.status = "ok"))
          /\ capResp' = r
          /\ IF r.status # "ok"
             THEN /\ caption' = ErrorText(r.status)
                  /\ capStatus' = "failed"
                  /\ pc' = "check_caption"
                  /\ UNCHANGED outcome
             ELSE IF HasGeneratedText(r.body)
             THEN /\ caption' = r.body[1].generated_text
                  /\ capStatus' = "ok"
                  /\ pc' = "check_caption"
                  /\ UNCHANGED outcome
             ELSE /\ capStatus' = "raised"
                  /\ pc' = "done"
                  /\ outcome' = [kind |-> "exception", stage |-> "none"]
                  /\ UNCHANGED caption
    /\ UNCHANGED <<image_url, remote, model, attempt, story, storyStatus,
                   modelUsed, audio_file, ttsStatus, file, sleeps, valid, presented,
                   rawStory, ttsResp, peer>>

\* variant: a failed caption sends main() back to the captioning stage
MainCheckCaptionRerun ==
    /\ pc = "check_caption"
    /\ IF HasError(caption)
       THEN /\ pc' = "img2text"
            /\ UNCHANGED <<invoked, outcome>>
       ELSE /\ invoked' = Append(invoked, "story")
            /\ pc' = "story_attempt"
            /\ UNCHANGED outcome
    /\ model' = 1
    /\ attempt' = 0
    /\ UNCHANGED <<image_url, remote, caption, capStatus, story, storyStatus,
                   modelUsed, audio_file, ttsStatus, file, calls, sleeps,
                   valid, capResp, presented,
                   rawStory, ttsResp, peer>>

\* app.py:101-107 (and 36-51: generate_story starts at the first candidate)
MainCheckCaption ==
    /\ pc = "check_caption"
    /\ IF HasError(caption)
       THEN /\ outcome' = [kind |-> "failure", stage |-> "caption"]
            /\ pc' = "done"
            /\ UNCHANGED invoked
       ELSE /\ invoked' = Append(invoked, "story")
            /\ pc' = "story_attempt"
            /\ UNCHANGED outcome
    /\ model' = 1
    /\ attempt' = 0
    /\ UNCHANGED <<image_url, remote, caption, capStatus, story, storyStatus,
                   modelUsed, audio_file, ttsStatus, file, calls, sleeps,
                   valid, capResp, presented,
                   rawStory, ttsResp, peer>>

-----------------------------------------------------------------------------
(* generate_story *)

\* app.py:53-63: one pass through the try block
StoryAttempt ==
    /\ pc = "story_attempt"
    /\ \E r \in remote.story[<<model, attempt>>] :
          /\ calls' = Append(calls, Call("story", model, attempt, r.status = "ok"))
          /\ IF r.status = "ok"
             THEN /\ rawStory' = r.text
                  /\ story' = PostProcess(r.text)
                  /\ storyStatus' = "ok"
                  /\ modelUsed' = model
                  /\ pc' = "check_story"
             ELSE /\ pc' = "story_sleep"
                  /\ UNCHANGED <<story, storyStatus, modelUsed, rawStory>>
    /\ UNCHANGED <<image_url, remote, caption, capStatus, model, attempt,
                   audio_file, ttsStatus, file, sleeps, outcome, valid,
                   invoked, capResp, presented,
                   ttsResp, peer>>

\* variant: the series of the source comment, 2s, 4s, 8s
BackoffShifted(a) == 2 ^ (a + 1)

\* 2**attempt (app.py:64)
Backoff(a) == 2 ^ a

\* variant: a failed attempt abandons the candidate instead of retrying it
StorySleepNoRetry ==
    /\ pc = "story_sleep"
    /\ sleeps' = Append(sleeps, Backoff(attempt))
    /\ IF model < Len(models)
       THEN /\ model' = model + 1
            /\ attempt' = 0
            /\ pc' = "story_attempt"
            /\ UNCHANGED <<story, storyStatus>>
       ELSE /\ story' = ExhaustedText
            /\ storyStatus' = "failed"
            /\ pc' = "check_story"
            /\ UNCHANGED <<model, attempt>>
    /\ UNCHANGED <<image_url, remote, caption, capStatus, modelUsed,
                   audio_file, ttsStatus, file, calls, outcome, valid,
                   invoked, capResp, presented,
                   rawStory, ttsResp, peer>>

\* variant: sleep only when another attempt on the same candidate follows
StorySleepBetweenOnly ==
    /\ pc = "story_sleep"
    /\ IF attempt + 1 < retry_attempts
       THEN /\ sleeps' = Append(sleeps, Backoff(attempt))
            /\ attempt' = attempt + 1
            /\ pc' = "story_attempt"
            /\ UNCHANGED <<model, story, storyStatus>>
       ELSE IF model < Len(models)
       THEN /\ model' = model + 1
            /\ attempt' = 0
            /\ pc' = "story_attempt"
            /\ UNCHANGED <<sleeps, story, storyStatus>>
       ELSE /\ story' = ExhaustedText
            /\ storyStatus' = "failed"
            /\ pc' = "check_story"
            /\ UNCHANGED <<sleeps, model, attempt>>
    /\ UNCHANGED <<image_url, remote, caption, capStatus, modelUsed,
                   audio_file, ttsStatus, file, calls, outcome, valid,
                   invoked, capResp, presented, rawStory, ttsResp, peer>>

\* variant: the loops have no way out once the last candidate is exhausted
StorySleepNoExit ==
    /\ pc = "story_sleep"
    /\ attempt + 1 < retry_attempts \/ model < Len(models)
    /\ sleeps' = Append(sleeps, Backoff(attempt))
    /\ IF attempt + 1 < retry_attempts
       THEN /\ attempt' = attempt + 1
            /\ UNCHANGED model
       ELSE /\ model' = model + 1
            /\ attempt' = 0
    /\ pc' = "story_attempt"
    /\ UNCHANGED <<image_url, remote, caption, capStatus, modelUsed,
                   audio_file, ttsStatus, file, calls, outcome, valid,
                   invoked, capResp, presented, rawStory, ttsResp, peer,
                   story, storyStatus>>

\* app.py:64, then the loop headers 53 and 51, then 66
StorySleep ==
    /\ pc = "story_sleep"
    /\ sleeps' = Append(sleeps, Backoff(attempt))
    /\ IF attempt + 1 < retry_attempts
       THEN /\ attempt' = attempt + 1
            /\ pc' = "story_attempt"
            /\ UNCHANGED <<model, story, storyStatus>>
       ELSE IF model < Len(models)
       THEN /\ model' = model + 1
            /\ attempt' = 0
            /\ pc' = "story_attempt"
            /\ UNCHANGED <<story, storyStatus>>
       ELSE /\ story' = ExhaustedText
            /\ storyStatus' = "failed"
            /\ pc' = "check_story"
            /\ UNCHANGED <<model, attempt>>
    /\ UNCHANGED <<image_url, remote, caption, capStatus, modelUsed,
                   audio_file, ttsStatus, file, calls, outcome, valid,
                   invoked, capResp, presented,
                   rawStory, ttsResp, peer>>

\* app.py:108-113
MainCheckStory ==
    /\ pc = "check_story"
    /\ IF HasError(story)
       THEN /\ outcome' = [kind |-> "failure", stage |-> "story"]
            /\ pc' = "done"
       ELSE /\ pc' = "text2speech"
            /\ UNCHANGED outcome
    /\ UNCHANGED <<image_url, remote, caption, capStatus, model, attempt,
                   story, storyStatus, modelUsed, audio_file, ttsStatus,
                   file, calls, sleeps, valid, invoked, capResp, presented,
                   rawStory, ttsResp, peer>>

-----------------------------------------------------------------------------
(* text2speech and the end of main() *)

\* variant: the response body is written before the status is checked
Text2SpeechWriteFirst ==
    /\ pc = "text2speech"
    /\ invoked' = Append(invoked, "audio")
    /\ \E r \in remote.audio :
          /\ calls' = Append(calls, Call("audio", 0, 0, r.status = "ok"))
          /\ ttsResp' = r
          /\ file' = r.content
          /\ IF r.status = "ok"
             THEN /\ audio_file' = audio_path
                  /\ ttsStatus' = "ok"
             ELSE /\ audio_file' = ErrorText(r.status)
                  /\ ttsStatus' = "failed"
    /\ pc' = "check_audio"
    /\ UNCHANGED <<image_url, remote, caption, capStatus, model, attempt,
                   story, storyStatus, modelUsed, sleeps, outcome, valid,
                   capResp, presented, rawStory, peer>>

\* app.py:114 calling app.py:69-82
Text2Speech ==
    /\ pc = "text2speech"
    /\ invoked' = Append(invoked, "audio")
    /\ \E r \in remote.audio :
          /\ calls' = Append(calls, Call("audio", 0, 0, r.status = "ok"))
          /\ ttsResp' = r
          /\ IF r.status = "ok"
             THEN /\ file' = r.content
                  /\ audio_file' = audio_path
                  /\ ttsStatus' = "ok"
             ELSE /\ audio_file' = ErrorText(r.status)
                  /\ ttsStatus' = "failed"
                  /\ UNCHANGED file
    /\ pc' = "check_audio"
    /\ UNCHANGED <<image_url, remote, caption, capStatus, model, attempt,
                   story, storyStatus, modelUsed, sleeps, outcome, valid,
                   capResp, presented,
                   rawStory, peer>>

\* app.py:115-129
MainCheckAudio ==
    /\ pc = "check_audio"
    /\ IF HasError(audio_file)
       THEN /\ outcome' = [kind |-> "failure", stage |-> "audio"]
            /\ UNCHANGED presented
       ELSE /\ outcome' = [kind |-> "success", stage |-> "none"]
            /\ presented' = [caption |-> caption, story |-> story, audio |-> file]
    /\ pc' = "done"
    /\ UNCHANGED <<image_url, remote, caption, capStatus, model, attempt,
                   story, storyStatus, modelUsed, audio_file, ttsStatus,
                   file, calls, sleeps, valid, invoked, capResp,
                   rawStory, ttsResp, peer>>

-----------------------------------------------------------------------------
(* A second run of main() in the same process and working directory.  Its   *)
(* captioning and story stages touch only its own local variables, so it is *)
(* taken up where it calls text2speech.                                     *)

\* app.py:114 calling app.py:69-82, executed by the second run
PeerText2Speech ==
    /\ peer.pc = "text2speech"
    /\ \E r \in remote.audio :
          /\ peer' = [peer EXCEPT !.pc = "check_audio",
                                  !.resp = r,
                                  !.audio_file = IF r.status = "ok"
                                                 THEN audio_path
                                                 ELSE ErrorText(r.status)]
          /\ file' = IF r.status = "ok" THEN r.content ELSE file
    /\ UNCHANGED <<pc, image_url, remote, caption, capStatus, model, attempt,
                   story, storyStatus, modelUsed, audio_file, ttsStatus, calls,
                   sleeps, outcome, valid, invoked, capResp, presented,
                   rawStory, ttsResp>>

\* app.py:115-129, executed by the second run
PeerCheckAudio ==
    /\ peer.pc = "check_audio"
    /\ peer' = [peer EXCEPT !.pc = "done",
                            !.presented = IF HasError(peer.audio_file)
                                          THEN "none"
                                          ELSE file]
    /\ UNCHANGED <<pc, image_url, remote, caption, capStatus, model, attempt,
                   story, storyStatus, modelUsed, audio_file, ttsStatus, file,
                   calls, sleeps, outcome, valid, invoked, capResp, presented,
                   rawStory, ttsResp>>

-----------------------------------------------------------------------------

Next ==
    \/ MainInput
    \/ IsValidImageUrl
    \/ Img2TextUrl
    \/ MainCheckCaption
    \/ StoryAttempt
    \/ StorySleep
    \/ MainCheckStory
    \/ Text2Speech
    \/ MainCheckAudio

Spec == Init /\ [][Next]_vars

SpecSched == InitSched /\ [][Next]_vars

\* one answer for every branch the code takes on an answer: a client error, a
\* body without the field, a text with and without the error marker, an empty
\* text
InitBranches ==
    /\ InitRun
    /\ remote = [caption |-> SchedCaptionResponses
                                \cup {[status |-> "ok", body |-> <<>>],
                                      [status |-> "ok", body |-> <<[generated_text |-> <<>>]>>],
                                      [status |-> "ok", body |-> <<[generated_text |-> <<"Error">>]>>]},
                 story |-> [s \in Slots |->
                                SchedStoryResponses
                                    \cup {[status |-> "ok", text |-> <<"Error">>]}],
                 audio |-> SchedAudioResponses]

\* every remote call returns or raises and every sleep ends, so a run that can
\* take a step eventually takes one
SpecFair == InitBranches /\ [][Next]_vars /\ WF_vars(Next)

\* two runs at once, every interleaving of their steps
InitConc ==
    /\ InitRun
    /\ remote = [caption |-> SchedCaptionResponses,
                 story |-> [s \in Slots |-> SchedStoryResponses],
                 audio |-> AudioResponses]

NextConc ==
    \/ Next
    \/ PeerText2Speech
    \/ PeerCheckAudio

SpecConc == InitConc /\ [][NextConc]_vars

TypeOK ==
    /\ pc \in {"main", "validate", "img2text", "check_caption",
               "story_attempt", "story_sleep", "check_story", "text2speech",
               "check_audio", "done"}
    /\ model \in 1..Len(models)
    /\ attempt \in 0..(retry_attempts - 1)
    /\ modelUsed \in 0..Len(models)
    /\ capStatus \in {"none", "ok", "failed", "raised"}
    /\ storyStatus \in {"none", "ok", "failed"}
    /\ ttsStatus \in {"none", "ok", "failed"}
    /\ valid \in {"unchecked", "valid", "invalid"}

-----------------------------------------------------------------------------
(* Claims *)

\* C1: the first stage failure halts the run.  generate_story is invoked only
\* after img2text_url returned a success, text2speech only after generate_story
\* returned a success; once a stage has failed (or raised) no later stage is
\* invoked, and the outcome main() reports names the stage that failed.
C1_FirstFailureHalts ==
    /\ Invocations("story") > 0 => capStatus = "ok"
    /\ Invocations("audio") > 0 => storyStatus = "ok"
    /\ capStatus \in {"failed", "raised"} => invoked = <<"caption">>
    /\ storyStatus = "failed" => Invocations("audio") = 0
    /\ (capStatus = "failed" /\ pc = "done") => outcome = Failure("caption")
    /\ (storyStatus = "failed" /\ pc = "done") => outcome = Failure("story")
    /\ (ttsStatus = "failed" /\ pc = "done") => outcome = Failure("audio")

C1_Witness ==
    /\ pc = "done"
    /\ capStatus = "failed"
    /\ invoked = <<"caption">>
    /\ outcome = Failure("caption")

\* C2: candidates are tried in list order, each for 3 attempts before the
\* next: the i-th story call goes to candidate ((i-1) div 3) + 1 with attempt
\* index (i-1) mod 3, and every call before the last one failed.  When the
\* three calls to candidate 1 fail and the first call to candidate 2 returns,
\* the stage returns from candidate 2 after exactly 3 + 1 calls.
C2_DeclaredOrder ==
    LET sc == StoryCalls
    IN  /\ \A i \in DOMAIN sc :
              /\ sc[i].model = ((i - 1) \div 3) + 1
              /\ sc[i].attempt = (i - 1) % 3
              /\ i < Len(sc) => ~sc[i].ok
        /\ (Len(sc) >= 4 /\ sc[4].ok) =>
              /\ storyStatus = "ok"
              /\ modelUsed = 2
              /\ models[modelUsed] = "deepseek-ai/DeepSeek-R1"
              /\ Len(sc) = 4
              /\ CallsToModel(1) = 3
              /\ CallsToModel(2) = 1
              /\ CallsToModel(3) = 0

C2_Witness ==
    /\ Len(StoryCalls) = 4
    /\ \A i \in 1..3 : ~StoryCalls[i].ok
    /\ StoryCalls[4].ok
    /\ modelUsed = 2

\* C3: one invocation of generate_story makes at most 3 x (number of
\* candidates) = 9 remote calls, and at most 3 to any one candidate.
C3_CallBudget ==
    /\ Invocations("story") <= 1
    /\ Len(StoryCalls) <= 3 * Len(models)
    /\ Len(StoryCalls) <= 9
    /\ \A m \in 1..Len(models) : CallsToModel(m) <= 3

C3_Witness ==
    /\ Len(StoryCalls) = 9
    /\ storyStatus = "failed"

\* C4: first success wins.  An attempt whose post-processed text is non-empty
\* ends the stage at once with that text (no further call, no further sleep),
\* and whenever some slot of the schedule yields such a text the stage returns
\* the text of the earliest such slot.
Scheduled(s) == CHOOSE r \in remote.story[s] : TRUE

Usable(s) ==
    /\ Scheduled(s).status = "ok"
    /\ PostProcess(Scheduled(s).text) # <<>>

SlotIndex(s) == (s[1] - 1) * 3 + s[2] + 1

C4_FirstSuccessWins ==
    LET sc == StoryCalls
        usable == {s \in Slots : Usable(s)}
    IN  /\ \A i \in DOMAIN sc :
              Usable(<<sc[i].model, sc[i].attempt>>) =>
                  /\ i = Len(sc)
                  /\ storyStatus = "ok"
                  /\ story = PostProcess(Scheduled(<<sc[i].model, sc[i].attempt>>).text)
                  /\ Len(sleeps) = i - 1
        /\ (storyStatus # "none" /\ usable # {}) =>
              LET e == CHOOSE s \in usable :
                          \A t \in usable : SlotIndex(s) <= SlotIndex(t)
              IN  /\ storyStatus = "ok"
                  /\ modelUsed = e[1]
                  /\ story = PostProcess(Scheduled(e).text)
                  /\ Len(sc) = SlotIndex(e)

\* C5: when every candidate has failed all 3 attempts, generate_story returns
\* the exhaustion failure, main() reports the story stage as the failing one,
\* and text2speech is never invoked.
C5_Exhaustion ==
    ((\A m \in 1..Len(models) : CallsToModel(m) = 3)
        /\ (\A i \in DOMAIN StoryCalls : ~StoryCalls[i].ok)
        /\ pc # "story_sleep") =>
            /\ storyStatus = "failed"
            /\ story = ExhaustedText
            /\ HasError(story)
            /\ pc \in {"check_story", "done"}
            /\ Invocations("audio") = 0
            /\ CallsTo("audio") = 0
            /\ pc = "done" => outcome = Failure("story")

C5_Witness ==
    /\ pc = "done"
    /\ Len(StoryCalls) = 9
    /\ \A i \in DOMAIN StoryCalls : ~StoryCalls[i].ok
    /\ outcome = Failure("story")
    /\ Invocations("audio") = 0

\* C6: a response whose post-processed text is empty counts as a failed
\* attempt, so generate_story never returns the empty string as a story.
C6_EmptyIsFailure ==
    storyStatus = "ok" => story # <<>>

\* C7: for a non-empty image reference that passed validation, main() invokes
\* img2text_url exactly once, and before generate_story or text2speech.
C7_CaptionOnceFirst ==
    /\ Invocations("caption") <= 1
    /\ invoked # <<>> =>
          /\ invoked[1] = "caption"
          /\ image_url # <<>>
          /\ valid = "valid"
    /\ (image_url # <<>> /\ valid = "valid" /\ pc # "img2text") =>
          Invocations("caption") = 1

C7_Witness ==
    /\ pc = "done"
    /\ image_url # <<>>
    /\ valid = "valid"
    /\ invoked = <<"caption", "story", "audio">>

\* C8: when all three stages succeed the run ends in a success that presents
\* caption, story and audio, whatever the caption and story texts are; main()
\* reports a stage as failed only if that stage really failed.
C8_SuccessYieldsArtifacts ==
    /\ (pc = "done" /\ capStatus = "ok" /\ storyStatus = "ok" /\ ttsStatus = "ok") =>
          /\ outcome.kind = "success"
          /\ presented = [caption |-> caption, story |-> story, audio |-> file]
    /\ outcome = Failure("caption") => capStatus = "failed"
    /\ outcome = Failure("story") => storyStatus = "failed"
    /\ outcome = Failure("audio") => ttsStatus = "failed"

\* C9: a success response of the captioning endpoint whose first element has
\* no generated_text, or an empty one, is a captioning failure: main() reports
\* a failure of the caption stage and generate_story is not invoked.
C9_MalformedCaptionFails ==
    LET malformed ==
            /\ capResp.status = "ok"
            /\ \/ ~HasGeneratedText(capResp.body)
               \/ capResp.body[1].generated_text = <<>>
    IN  malformed =>
            /\ Invocations("story") = 0
            /\ pc = "done" => outcome = Failure("caption")

\* C10: img2text_url and text2speech are single-shot: one remote call per
\* invocation, and a client error makes the stage return its failure at once,
\* with no second call.
C10_SingleShot ==
    /\ CallsTo("caption") = Invocations("caption")
    /\ CallsTo("audio") = Invocations("audio")
    /\ \A i \in DOMAIN calls :
          /\ (calls[i].stage = "caption" /\ ~calls[i].ok) =>
                /\ capStatus = "failed"
                /\ CallsTo("caption") = 1
                /\ pc \in {"check_caption", "done"}
          /\ (calls[i].stage = "audio" /\ ~calls[i].ok) =>
                /\ ttsStatus = "failed"
                /\ CallsTo("audio") = 1
                /\ pc \in {"check_audio", "done"}

C10_Witness ==
    /\ pc = "done"
    /\ ttsStatus = "failed"
    /\ CallsTo("caption") = 1
    /\ CallsTo("audio") = 1
    /\ ~calls[Len(calls)].ok

\* C11: concurrent runs are independent: under every interleaving of two
\* runs, the audio each run presents is the payload its own narration call
\* received.
C11_RunsIndependent ==
    /\ (pc = "done" /\ outcome.kind = "success") =>
          presented.audio = ttsResp.content
    /\ (peer.pc = "done" /\ peer.resp.status = "ok") =>
          peer.presented = peer.resp.content

\* C12: post-processing returns the last non-empty line of the raw text,
\* trimmed, for every raw text; the three-line example that ends in a newline
\* yields its last written line without the padding.
LastNonEmptyLine(raw) ==
    LET ink == {i \in DOMAIN raw : raw[i] \notin Whitespace}
    IN  IF ink = {} THEN <<>>
        ELSE LET last == Max(ink)
                 before == {i \in 1..last : raw[i] = "\n"}
                 after == {i \in last..Len(raw) : raw[i] = "\n"}
                 from == IF before = {} THEN 1 ELSE Max(before) + 1
                 to == IF after = {} THEN Len(raw) ELSE Min(after) - 1
             IN  Strip(SubSeq(raw, from, to))

C12_LastNonEmptyLine ==
    storyStatus = "ok" =>
        /\ story = LastNonEmptyLine(rawStory)
        /\ rawStory = ExampleRaw => story = <<"a", " ", "a">>

FailedStoryCalls == Cardinality({i \in DOMAIN StoryCalls : ~StoryCalls[i].ok})

C15_Terminates ==
    /\ <>(pc = "done")
    /\ (pc \in {"story_attempt", "story_sleep"}) ~> (storyStatus \in {"ok", "failed"})
    /\ [][pc = "done" => pc' = "done"]_vars
    /\ [](\A st \in {"caption", "story", "audio"} : Invocations(st) <= 1)
    /\ [](pc = "done" =>
            \/ image_url = <<>> /\ invoked = <<>>
            \/ valid = "invalid" /\ invoked = <<>>
            \/ outcome.kind = "success" /\ invoked = <<"caption", "story", "audio">>
            \/ outcome.kind = "exception" /\ invoked = <<"caption">>
            \/ outcome.kind = "failure" /\ invoked # <<>>
                   /\ outcome.stage = invoked[Len(invoked)])

C15_Witness ==
    /\ pc = "done"
    /\ outcome.kind = "success"
    /\ Len(StoryCalls) = 9
    /\ Len(sleeps) = 8

\* C16: text2speech is only ever invoked with a non-empty story that an
\* attempt of generate_story produced, never with the empty string and never
\* with the error message of the story stage.
C16_NarrationInput ==
    (pc = "text2speech" \/ Invocations("audio") > 0) =>
        /\ storyStatus = "ok"
        /\ story = PostProcess(rawStory)
        /\ story # ExhaustedText
        /\ ~HasError(story)
        /\ story # <<>>

\* C17: a failed narration call leaves audio.flac as it was; the file changes
\* only in text2speech after a success response, and after the write its
\* content is the body of that response.
C17_FileWrittenOnSuccessOnly ==
    [][/\ file' # file => (pc = "text2speech" /\ ttsResp'.status = "ok")
       /\ (pc = "text2speech" /\ ttsResp'.status = "ok") =>
              (file' = ttsResp'.content /\ file' \in AudioBytes)
       /\ (pc = "text2speech" /\ ttsResp'.status # "ok") =>
              (file' = file /\ ttsStatus' = "failed")]_vars

C17_Witness ==
    /\ ttsStatus = "failed"
    /\ ttsResp.status \in ClientErrors
    /\ file = "flac0"

=============================================================================
